---- MODULE Spec2Model ----
(***************************************************************************)
(* Model of the SolidEventSourcing publisher: the abstract Publisher       *)
(* (src/EventSource/src/util/Processing.ts, lines 500-752), the            *)
(* SimplePublisher built on it (src/EventSource/src/algorithms/            *)
(* Publisher.ts, lines 216-323) and the older metadata based assignment    *)
(* calculateBucket (Processing.ts, lines 238-252).                         *)
(*                                                                         *)
(* Time is counted in days since the epoch (timestamp t stands for         *)
(* 86400000 * t ms, and 0 for the epoch itself); the process runs in UTC,  *)
(* so the textual form of the Date of day t is that of the t-th day after  *)
(* "Thu Jan 01 1970".                                                      *)
(*                                                                         *)
(* The storage collaborator (Communication / LDESinLDP) is outside the     *)
(* repository.  It is modelled by what the publisher can observe of it:    *)
(* the containers that exist, the resources each one holds, and the        *)
(* requests that were issued and have not been answered yet.               *)
(***************************************************************************)
EXTENDS Integers, Sequences, FiniteSets, TLC

\* ------------------------------------------------------------------ bounds
MaxTime == 2        \* timestamps are 0..MaxTime
MaxInput == 1       \* timestamps handed to the publisher are 0..MaxInput
MaxCap == 2         \* finite bucket sizes offered to init are 1..MaxCap
MaxRes == 2         \* resources handed to publish/append
MaxDates == 1       \* Date objects a caller of append makes for new buckets
MaxData == 4        \* entries of bucketData (rebalance adds them without end)
MaxMembers == 3     \* resources per bucket in a drawn bucket index
MaxBuckets == 3     \* buckets in a drawn bucket index

\* `Infinity` of the source: larger than every length the model can reach.
Infinity == 1000000

Min(a, b) == IF a <= b THEN a ELSE b

Times == 0..MaxTime
InputTimes == 0..Min(MaxInput, MaxTime)
Capacities == (1..MaxCap) \cup {Infinity}

\* ------------------------------------------------------------ plain helpers

Range(s) == {s[k] : k \in DOMAIN s}

RECURSIVE SumLen(_)
SumLen(data) ==
    IF data = <<>> THEN 0 ELSE Len(Head(data).members) + SumLen(Tail(data))

RECURSIVE CountIn(_, _)
CountIn(s, v) ==
    IF s = <<>> THEN 0
    ELSE (IF Head(s) = v THEN 1 ELSE 0) + CountIn(Tail(s), v)

\* A Date object: `ref` is the object's identity (Array.includes compares
\* Date objects by reference), `t` its time value.
Date(ref, t) == [ref |-> ref, t |-> t]

\* `undefined`, as returned by this.buckets[-1 ...] on an empty array.
Undefined == [ref |-> 0, t |-> 0 - 1]

\* ---------------------------------------------------------- Date as string
\* Array.prototype.sort() without a comparator orders by the string form of
\* the elements; a Date prints as "Www Mmm DD YYYY ...".  For the days of
\* January 1970 the strings differ first in the weekday name and then in the
\* day of the month.  Day 0 is a Thursday.
WeekdayRank(t) ==
    CASE t % 7 = 0 -> 5    \* Thu
      [] t % 7 = 1 -> 1    \* Fri
      [] t % 7 = 2 -> 3    \* Sat
      [] t % 7 = 3 -> 4    \* Sun
      [] t % 7 = 4 -> 2    \* Mon
      [] t % 7 = 5 -> 6    \* Tue
      [] OTHER     -> 7    \* Wed

StringLess(d1, d2) ==
    \/ WeekdayRank(d1.t) < WeekdayRank(d2.t)
    \/ WeekdayRank(d1.t) = WeekdayRank(d2.t) /\ d1.t < d2.t

RECURSIVE InsertByString(_, _)
InsertByString(sorted, d) ==
    IF sorted = <<>> THEN <<d>>
    ELSE IF StringLess(d, Head(sorted)) THEN <<d>> \o sorted
    ELSE <<Head(sorted)>> \o InsertByString(Tail(sorted), d)

\* this._buckets.sort(): stable, by string.
RECURSIVE Sort(_)
Sort(s) ==
    IF s = <<>> THEN <<>>
    ELSE InsertByString(Sort(SubSeq(s, 1, Len(s) - 1)), s[Len(s)])

\* ------------------------------------------------------------------- state
VARIABLES
    buckets,        \* Publisher._buckets: sequence of Date objects
    bucketSize,     \* Publisher._bucketSize
    enabled,        \* TRUE once init has installed the working _addToBucket,
                    \*   _removeFromBucket and _createBucket closures
    ipc,            \* position of the running init call, "idle" when none
    iargs,          \* arguments (and locals) of the running init call
    nextRef,        \* identity of the next Date object
    nextRes,        \* identity of the next resource handed to the publisher
    lil,            \* remote stream root: "absent", "invalid" or "valid"
    pageSize,       \* remote metadata: fragment size (Infinity when unset)
    shapeDoc,       \* remote: the shape document exists
    metaShape,      \* remote metadata: tree:shape back-reference present
    containers,     \* remote: timestamps of the bucket containers
    contents,       \* remote: resources held by each bucket container
    inflight,       \* storage requests issued and not yet answered
    rpc,            \* position of the running rebalance call, "idle" when none
    bucketData,     \* SimplePublisher.bucketData: [date, members] per bucket
    ri,             \* rebalance: index i of the bucket being looked at
    remaining,      \* rebalance: local `remaining`
    xfer,           \* the running _rebalance(from, to) call
    loaded,         \* history: member entries as loaded by this rebalance
    atCall,         \* history: remote contents when rebalance was called
    ret,            \* outcome of the latest call
    relations,      \* calculateBucket: metadata.views[0].relations
    sample,         \* the resource handed to getBucket / calculateBucket
    chosen,         \* what getBucket / calculateBucket answered
    spc,            \* position of the running addShapeToLil call, "idle" when none
    sret,           \* outcome of the latest addShapeToLil call
    store,          \* extractResources: the triples of the store
    resources,      \* extractResources: local `resources`, a list of quad lists
    ei,             \* extractResources: index of the resource being walked
    ej,             \* extractResources: index of the quad being looked at
    existingObjects,\* extractResources: local `existingObjects`
    epc,            \* position of extractResources, "idle" when not called
    original,       \* history: the extracted resource sent on the round trip
    turtleIn,       \* resourceToOptimisedTurtle: the resource handed in
    turtleOut,      \* resourceToOptimisedTurtle: what it wrote or threw
    genIn,          \* generateShape: the resource handed in
    genOut,         \* generateShape: the shape it returned, "idle" before
    batchIn,        \* batchResources: its arguments source and count
    batchOut        \* batchResources: what it returned, "idle" before

pubVars == <<buckets, bucketSize, enabled, ipc, iargs, nextRef, nextRes>>
remoteVars == <<lil, pageSize, shapeDoc, metaShape, containers, contents, inflight>>
rebVars == <<rpc, bucketData, ri, remaining, xfer, loaded, atCall>>
shapeVars == <<spc, sret>>
extractVars == <<store, resources, ei, ej, existingObjects, epc, original>>
turtleVars == <<turtleIn, turtleOut>>
genVars == <<genIn, genOut>>
batchVars == <<batchIn, batchOut>>
fnVars == <<relations, sample, chosen, shapeVars, extractVars, turtleVars, genVars, batchVars>>
vars == <<pubVars, remoteVars, rebVars, ret, fnVars>>

\* ---------------------------------------------------------------- resources
\* A resource handed to the publisher.  `kind` says what is found at the
\* configured tree path: "ok" a calendar date-time (`ts`), "missing" nothing,
\* "invalid" a literal that is no calendar date-time.
Resource(id, kind, ts) == [id |-> id, kind |-> kind, ts |-> ts]

NoResource == Resource(0, "missing", 0)

ResourceInputs(id) ==
    {Resource(id, "ok", t) : t \in InputTimes}
        \cup {Resource(id, "missing", 0), Resource(id, "invalid", 0)}

\* Errors, named after the kinds of the design; the source throws Error
\* objects that differ in their message only.
ErrOutOfRange == "OutOfRange"             \* Publisher.ts line 290
ErrMalformedInput == "MalformedInput"     \* Publisher.ts line 299
ErrNotInitialised == "NotInitialised"     \* Processing.ts lines 742, 746, 750
ErrTypeError == "TypeError"               \* a property read on undefined

\* getTimeStamp: the first object at the tree path, handed to the
\* collaborator's extractTimestampFromLiteral, which returns a number.
\* Nothing at the path: the collaborator reads a property of undefined.
\* A literal that is no date-time: the collaborator either throws or returns
\* what Date parsing yields, NaN (`parse` is that outcome); getTimeStamp
\* checks neither.
GetTimeStamp(resource, parse) ==
    CASE resource.kind = "ok" -> [kind |-> "num", v |-> resource.ts]
      [] resource.kind = "missing" -> [kind |-> "throw", v |-> 0]
      [] OTHER -> IF parse = "nan" THEN [kind |-> "nan", v |-> 0]
                  ELSE [kind |-> "throw", v |-> 0]

ParseOutcomes == {"throw", "nan"}

\* bucketDate > resourceDate; every comparison with an invalid Date is false.
DateGreater(bucketDate, stamp) == stamp.kind = "num" /\ bucketDate.t > stamp.v

\* Array.findIndex: the first (1-based) index whose Date exceeds the
\* resource's, 0 when there is none (-1 in the source).
FindIndex(bkts, stamp) ==
    IF \E k \in DOMAIN bkts : DateGreater(bkts[k], stamp)
    THEN CHOOSE k \in DOMAIN bkts :
            /\ DateGreater(bkts[k], stamp)
            /\ \A j \in 1..(k - 1) : ~DateGreater(bkts[j], stamp)
    ELSE 0

Threw(err) == [kind |-> "throw", err |-> err, date |-> Undefined]
Returned(date) == [kind |-> "return", err |-> "none", date |-> date]

\* The body of the try block of SimplePublisher.getBucket.
GetBucketTry(bkts, stamp) ==
    IF stamp.kind = "throw" THEN Threw(ErrTypeError)
    ELSE LET bucketIndex == FindIndex(bkts, stamp) IN
         IF bucketIndex = 1 THEN Threw(ErrOutOfRange)
         ELSE IF bucketIndex = 0
              THEN (IF bkts = <<>> THEN Returned(Undefined)
                    ELSE Returned(bkts[Len(bkts)]))
              ELSE Returned(bkts[bucketIndex - 1])

\* The catch clause: whatever was thrown inside the try block, the throw
\* of line 290 included, is replaced by the error of line 299.
GetBucketCatch(result) ==
    IF result.kind = "throw" THEN Threw(ErrMalformedInput) ELSE result

GetBucket(bkts, stamp) == GetBucketCatch(GetBucketTry(bkts, stamp))

\* calculateBucket: the loop over the relations, started with
\* timestampJustSmaller = 0 and correspondingUrl = "none".  A relation is
\* [value |-> its timestamp, node |-> its url].
RECURSIVE CalculateLoop(_, _, _, _)
CalculateLoop(rels, resourceTs, timestampJustSmaller, correspondingUrl) ==
    IF rels = <<>> THEN correspondingUrl
    ELSE LET relation == Head(rels) IN
         IF relation.value <= resourceTs /\ timestampJustSmaller < relation.value
         THEN CalculateLoop(Tail(rels), resourceTs, relation.value, relation.node)
         ELSE CalculateLoop(Tail(rels), resourceTs, timestampJustSmaller,
                            correspondingUrl)

None == "none"

CalculateBucket(rels, resourceTs) == CalculateLoop(rels, resourceTs, 0, None)

\* ------------------------------------------------------- storage requests
CreateReq(t) == [kind |-> "create", b |-> t, res |-> {}]
PatchReq(t, content) == [kind |-> "patch", b |-> t, res |-> content]

EmptyContents == [t \in Times |-> {}]

\* status.empty of the collaborator: the stream holds no resource.
RemoteEmpty == \A t \in Times : contents[t] = {}

\* -------------------------------------------------------- Publisher.append
\* A variant of Array.includes that finds no Date object; with it,
\* C33_PublishKeepsBuckets fails (append takes every bucket for a new one).
IncludesNothing(bkts, bucket) == FALSE

\* Array.includes on Date objects: the same object, not the same time.
Includes(bkts, bucket) == \E k \in DOMAIN bkts : bkts[k].ref = bucket.ref

\* _createBucket as installed by init: newFragment(date) is issued and not
\* awaited, the date is pushed on _buckets.
CreateBucket(bkts, date) ==
    [buckets |-> Append(bkts, date), reqs |-> {CreateReq(date.t)}]

\* A variant of the closure slots that never hold the throwing defaults;
\* with it, C10_NotInitialisedBeforeInit fails.
DefaultClosuresGone(en) == FALSE

\* _addToBucket, _removeFromBucket and _createBucket are the throwing
\* defaults until init has replaced them.
DefaultClosures(en) == ~en

\* append(resource, bucket): what it throws, the bucket list it leaves and
\* the requests it issues.  `content` is the set of resources whose quads
\* are in `resource` (empty for the empty quad array).
DoAppend(bkts, en, bucket, content) ==
    IF bucket = Undefined
    THEN [err |-> ErrTypeError, buckets |-> bkts, reqs |-> {}]
    ELSE IF ~Includes(bkts, bucket)
    THEN IF DefaultClosures(en)
         THEN [err |-> ErrNotInitialised, buckets |-> bkts, reqs |-> {}]
         ELSE LET created == CreateBucket(bkts, bucket) IN
              [err |-> "none",
               buckets |-> Sort(Append(created.buckets, bucket)),
               reqs |-> created.reqs \cup {PatchReq(bucket.t, content)}]
    ELSE IF DefaultClosures(en)
         THEN [err |-> ErrNotInitialised, buckets |-> bkts, reqs |-> {}]
         ELSE [err |-> "none", buckets |-> bkts,
               reqs |-> {PatchReq(bucket.t, content)}]

Outcome(op, err, res) == [op |-> op, err |-> err, res |-> res]

\* A subclass calling the protected append(resource, bucket) with a Date
\* object of its own making.
AppendCall(resource, t) ==
    /\ rpc = "idle"
    /\ nextRef <= MaxDates
    /\ LET done == DoAppend(buckets, enabled, Date(nextRef, t), {resource}) IN
        /\ buckets' = done.buckets
        /\ inflight' = inflight \cup done.reqs
        /\ nextRef' = IF done.err = "none" THEN nextRef + 1 ELSE nextRef
        /\ nextRes' = IF done.err = "none" THEN nextRes + 1 ELSE nextRes
        /\ ret' = Outcome("append", done.err, resource)
    /\ UNCHANGED <<bucketSize, enabled, ipc, iargs>>
    /\ UNCHANGED <<lil, pageSize, shapeDoc, metaShape, containers, contents>>
    /\ UNCHANGED <<rebVars, fnVars>>

\* SimplePublisher.publish(resource): getBucket, then append.
Publish(resource, parse) ==
    /\ rpc = "idle"
    /\ LET bucket == GetBucket(buckets, GetTimeStamp(resource, parse))
           done == DoAppend(buckets, enabled, bucket.date, {resource})
           err == IF bucket.kind = "throw" THEN bucket.err ELSE done.err
       IN
        /\ buckets' = IF bucket.kind = "throw" THEN buckets ELSE done.buckets
        /\ inflight' = IF bucket.kind = "throw" THEN inflight
                       ELSE inflight \cup done.reqs
        /\ nextRes' = IF err = "none" THEN nextRes + 1 ELSE nextRes
        /\ ret' = Outcome("publish", err, resource)
    /\ UNCHANGED <<bucketSize, enabled, ipc, iargs, nextRef>>
    /\ UNCHANGED <<lil, pageSize, shapeDoc, metaShape, containers, contents>>
    /\ UNCHANGED <<rebVars, fnVars>>

\* SimplePublisher.flush: bufferless, nothing is done.
Flush ==
    /\ rpc = "idle"
    /\ ret' = Outcome("flush", "none", NoResource)
    /\ UNCHANGED <<pubVars, remoteVars, rebVars, fnVars>>

\* ---------------------------------------------------------- Publisher.init
NoArgs == [date |-> 0, size |-> Infinity, shape |-> FALSE, empty |-> FALSE,
           setSize |-> FALSE, addShape |-> FALSE]

\* init(treePath, initialDate, options) up to its first await.
InitCall(date, size, shape) ==
    /\ ipc = "idle"
    /\ rpc = "idle"
    /\ ~enabled
    /\ ipc' = "status"
    /\ iargs' = [NoArgs EXCEPT !.date = date, !.size = size, !.shape = shape]
    /\ ret' = Outcome("init", "running", NoResource)
    /\ UNCHANGED <<buckets, bucketSize, enabled, nextRef, nextRes>>
    /\ UNCHANGED <<remoteVars, rebVars, fnVars>>

Return(value) == Outcome("init", value, NoResource)

\* status = await this.lil.status(), and the branch on it.
InitStatus ==
    /\ ipc = "status"
    /\ CASE lil = "absent" ->
              /\ ipc' = "initialise"
              /\ UNCHANGED <<iargs, ret>>
         [] lil = "invalid" ->
              /\ ipc' = "idle"
              /\ ret' = Return("false")
              /\ iargs' = NoArgs
         [] OTHER ->
              /\ ipc' = "meta"
              /\ iargs' = [iargs EXCEPT !.empty = RemoteEmpty]
              /\ UNCHANGED ret
    /\ UNCHANGED <<buckets, bucketSize, enabled, nextRef, nextRes>>
    /\ UNCHANGED <<remoteVars, rebVars, fnVars>>

\* await this.lil.initialise({treePath, pageSize, date: initialDate}) and
\* the second status().  The collaborator creates the stream root with one
\* bucket container at initialDate; whether it records the page size in the
\* metadata is its own business (`recorded`), and it may fail (`ok`).
InitInitialise(ok, recorded) ==
    /\ ipc = "initialise"
    /\ IF ok
       THEN /\ lil' = "valid"
            /\ containers' = containers \cup {iargs.date}
            /\ pageSize' = IF recorded THEN iargs.size ELSE pageSize
            /\ ipc' = "meta"
            /\ iargs' = [iargs EXCEPT !.empty = RemoteEmpty]
            /\ UNCHANGED ret
       ELSE /\ lil' = "invalid"
            /\ ipc' = "idle"
            /\ ret' = Return("false")
            /\ iargs' = NoArgs
            /\ UNCHANGED <<containers, pageSize>>
    /\ UNCHANGED <<buckets, bucketSize, enabled, nextRef, nextRes>>
    /\ UNCHANGED <<shapeDoc, metaShape, contents, inflight>>
    /\ UNCHANGED <<rebVars, fnVars>>

\* A variant of the status check that lets every response pass; with it,
\* C13_ReferenceOnlyAfterDocument fails.
RefusedUnchecked(ok) == FALSE

\* response.status < 200 || 299 < response.status
Refused(ok) == ~ok

\* readMetadata, the bucket size, and the put of the shape document.
InitMeta(putOk) ==
    /\ ipc = "meta"
    /\ LET setSize == pageSize = Infinity /\ iargs.size # Infinity /\ iargs.empty
           putShape == iargs.shape /\ ~metaShape /\ iargs.empty
       IN
        /\ bucketSize' = IF setSize THEN iargs.size ELSE bucketSize
        /\ putShape \/ putOk
        /\ IF putShape /\ Refused(putOk)
           THEN /\ ipc' = "idle"
                /\ ret' = Return("false")
                /\ iargs' = NoArgs
                /\ UNCHANGED shapeDoc
           ELSE /\ ipc' = "patch"
                /\ shapeDoc' = (shapeDoc \/ (putShape /\ putOk))
                /\ iargs' = [iargs EXCEPT !.setSize = setSize, !.addShape = putShape]
                /\ UNCHANGED ret
    /\ UNCHANGED <<buckets, enabled, nextRef, nextRes>>
    /\ UNCHANGED <<lil, pageSize, metaShape, containers, contents, inflight>>
    /\ UNCHANGED <<rebVars, fnVars>>

\* await this.comm.patch(containerIdentifier, insertBody), whose status is
\* not looked at; then the three closures are installed and init returns
\* true.
InitPatch(patchOk) ==
    /\ ipc = "patch"
    /\ metaShape' = (metaShape \/ (patchOk /\ iargs.addShape))
    /\ pageSize' = IF patchOk /\ iargs.setSize THEN bucketSize ELSE pageSize
    /\ enabled' = TRUE
    /\ ipc' = "idle"
    /\ ret' = Return("true")
    /\ iargs' = NoArgs
    /\ UNCHANGED <<buckets, bucketSize, nextRef, nextRes>>
    /\ UNCHANGED <<lil, shapeDoc, containers, contents, inflight>>
    /\ UNCHANGED <<rebVars, fnVars>>

\* ----------------------------------------------------------- addShapeToLil
ErrTransport == "TransportFailure"        \* Processing.ts lines 464, 474
ErrParse == "ParseError"                  \* turtleStringToStore on a body that is no turtle

ShapeOutcome(err) == [op |-> "addShapeToLil", err |-> err]

\* What the body of a refused get parses to: the parser throws, or it gives a
\* store without the stream's triples.
RefusedBodies == {"throw", "empty"}

\* A variant of streamHasShape that finds no shape; with it,
\* C12_NoOpOnceShapePresent fails.
StreamHasShapeNever(getOk, meta) == FALSE

\* streamHasShape: the .meta document is fetched, its status is not looked
\* at, and the body is searched for a tree:shape triple of the stream.
StreamHasShape(getOk, meta) == getOk /\ meta

\* addShapeToLil(eventStreamURI, shape, ...) up to its first await.
ShapeCall ==
    /\ spc = "idle"
    /\ spc' = "get"
    /\ sret' = ShapeOutcome("running")
    /\ UNCHANGED <<pubVars, remoteVars, rebVars, ret>>
    /\ UNCHANGED <<relations, sample, chosen, extractVars, turtleVars, genVars, batchVars>>

\* 0: if (await streamHasShape(...)) return false
ShapeGet(getOk, body) ==
    /\ spc = "get"
    /\ getOk => lil # "absent"
    /\ getOk => body = "empty"
    /\ IF ~getOk /\ body = "throw"
       THEN spc' = "idle" /\ sret' = ShapeOutcome(ErrParse)
       ELSE IF StreamHasShape(getOk, metaShape)
       THEN spc' = "idle" /\ sret' = ShapeOutcome("false")
       ELSE spc' = "put" /\ UNCHANGED sret
    /\ UNCHANGED <<pubVars, remoteVars, rebVars, ret>>
    /\ UNCHANGED <<relations, sample, chosen, extractVars, turtleVars, genVars, batchVars>>

\* 1: the shape document is put; a refused put is thrown.
ShapePut(putOk) ==
    /\ spc = "put"
    /\ IF Refused(putOk)
       THEN /\ spc' = "idle"
            /\ sret' = ShapeOutcome(ErrTransport)
            /\ UNCHANGED shapeDoc
       ELSE /\ spc' = "patch"
            /\ shapeDoc' = (shapeDoc \/ putOk)
            /\ UNCHANGED sret
    /\ UNCHANGED <<lil, pageSize, metaShape, containers, contents, inflight>>
    /\ UNCHANGED <<pubVars, rebVars, ret>>
    /\ UNCHANGED <<relations, sample, chosen, extractVars, turtleVars, genVars, batchVars>>

\* 2: the tree:shape triple is patched into the metadata; a refused patch
\* is thrown.  The metadata of a stream that does not exist takes no patch.
ShapePatch(patchOk) ==
    /\ spc = "patch"
    /\ patchOk => lil # "absent"
    /\ spc' = "idle"
    /\ IF Refused(patchOk)
       THEN /\ sret' = ShapeOutcome(ErrTransport)
            /\ UNCHANGED metaShape
       ELSE /\ sret' = ShapeOutcome("true")
            /\ metaShape' = (metaShape \/ patchOk)
    /\ UNCHANGED <<lil, pageSize, shapeDoc, containers, contents, inflight>>
    /\ UNCHANGED <<pubVars, rebVars, ret>>
    /\ UNCHANGED <<relations, sample, chosen, extractVars, turtleVars, genVars, batchVars>>

AddShapeToLil ==
    \/ ShapeCall
    \/ \E getOk \in BOOLEAN, body \in RefusedBodies : ShapeGet(getOk, body)
    \/ \E putOk \in BOOLEAN : ShapePut(putOk)
    \/ \E patchOk \in BOOLEAN : ShapePatch(patchOk)

\* ------------------------------------------------------------- the storage
\* A request is answered.  A create makes the container; a patch adds its
\* content to the container when that exists and is refused otherwise; any
\* request may be refused by the collaborator (`ok` false).
StorageAnswers(req, ok) ==
    /\ req \in inflight
    /\ inflight' = inflight \ {req}
    /\ containers' = IF ok /\ req.kind = "create"
                     THEN containers \cup {req.b} ELSE containers
    /\ contents' = IF ok /\ req.kind = "patch" /\ req.b \in containers
                   THEN [contents EXCEPT ![req.b] = @ \cup req.res]
                   ELSE contents
    /\ UNCHANGED <<pubVars, lil, pageSize, shapeDoc, metaShape>>
    /\ UNCHANGED <<rebVars, ret, fnVars>>

\* ------------------------------------------------ SimplePublisher.rebalance
\* getMembers(bucket): one entry per ldp:contains quad of the container,
\* each entry being quad.subject.value, the url of the container itself
\* (urls are modelled by the timestamp they end in).
GetMembers(cont, bucket) == [k \in 1..Cardinality(cont[bucket.t]) |-> bucket.t]

\* A variant of _removeFromBucket that takes a resource out of the container;
\* with it, C2_PopulationPreserved fails (move re-appends nothing).
RemoveFromBucketTaking(cont, resource, fromT) ==
    IF cont[fromT] = {} THEN cont
    ELSE [cont EXCEPT ![fromT] = @ \ {CHOOSE r \in @ : TRUE}]

\* _removeFromBucket as installed by init: its body is a TODO.
RemoveFromBucket(cont, resource, fromT) == cont

\* move(resource, from, to): it returns early when getMembers(from) does not
\* list the resource; otherwise it calls _removeFromBucket, which throws
\* until init has installed it, and append([], to), which is not awaited,
\* so that what append throws is seen by nobody.
DoMove(bkts, en, cont, resource, from, to) ==
    LET found == \E k \in DOMAIN GetMembers(cont, from) :
                     GetMembers(cont, from)[k] = resource
        done == DoAppend(bkts, en, to, {})
    IN  IF ~found
        THEN [err |-> "none", found |-> FALSE, buckets |-> bkts,
              contents |-> cont, reqs |-> {}]
        ELSE IF DefaultClosures(en)
        THEN [err |-> ErrNotInitialised, found |-> TRUE, buckets |-> bkts,
              contents |-> cont, reqs |-> {}]
        ELSE [err |-> "none", found |-> TRUE, buckets |-> done.buckets,
              contents |-> RemoveFromBucket(cont, resource, from.t),
              reqs |-> done.reqs]

\* A subclass calling the protected move(resource, from, to); the resource
\* is named by the url getMembers lists for the bucket of timestamp `url`.
MoveCall(url, from, to) ==
    /\ rpc = "idle"
    /\ LET done == DoMove(buckets, enabled, contents, url, from, to) IN
        /\ buckets' = done.buckets
        /\ contents' = done.contents
        /\ inflight' = inflight \cup done.reqs
        /\ nextRef' = IF Includes(done.buckets, Date(nextRef, to.t))
                      THEN nextRef + 1 ELSE nextRef
        /\ ret' = Outcome("move", done.err, NoResource)
    /\ UNCHANGED <<bucketSize, enabled, ipc, iargs, nextRes>>
    /\ UNCHANGED <<lil, pageSize, shapeDoc, metaShape, containers>>
    /\ UNCHANGED <<rebVars, fnVars>>

Entry(date, members) == [date |-> date, members |-> members]

NoXfer == [from |-> 0, to |-> 0, amount |-> 0, j |-> 0, after |-> "idle"]

\* _rebalance(from, to), line 307: the amount that is going to be moved.
Amount(fromLen, toLen, size) == Min(fromLen - size, toLen - size)

\* The call _rebalance(this.bucketData[from], data[to]) up to its loop.
StartXfer(data, from, to, after) ==
    [from |-> from, to |-> to, j |-> 0, after |-> after,
     amount |-> Amount(Len(data[from].members), Len(data[to].members), bucketSize)]

\* The number of entries naming url t over all membership lists.
RECURSIVE Entries(_, _)
Entries(data, t) ==
    IF data = <<>> THEN 0
    ELSE CountIn(Head(data).members, t) + Entries(Tail(data), t)

Running == Outcome("rebalance", "running", NoResource)

\* The locals of a rebalance call, and what is remembered about it, end
\* with the call.
Forget ==
    /\ ri' = 1
    /\ remaining' = 0
    /\ xfer' = NoXfer
    /\ loaded' = [t \in Times |-> 0]
    /\ atCall' = EmptyContents

\* rebalance() up to its first await: the bucket data is emptied.
RebalanceCall ==
    /\ rpc = "idle"
    /\ ipc = "idle"
    /\ bucketData' = <<>>
    /\ rpc' = IF buckets = <<>> THEN "scan" ELSE "load"
    /\ ri' = 1
    /\ remaining' = 0
    /\ xfer' = NoXfer
    /\ loaded' = [t \in Times |-> 0]
    /\ atCall' = contents
    /\ ret' = Running
    /\ UNCHANGED <<pubVars, remoteVars, fnVars>>

\* One round of the first loop: [bucket, await this.getMembers(bucket)].
RebalanceLoad ==
    /\ rpc = "load"
    /\ LET data == Append(bucketData,
                          Entry(buckets[ri], GetMembers(contents, buckets[ri])))
       IN
        /\ bucketData' = data
        /\ IF ri < Len(buckets)
           THEN /\ ri' = ri + 1
                /\ UNCHANGED <<rpc, loaded>>
           ELSE /\ ri' = 1
                /\ rpc' = "scan"
                /\ loaded' = [t \in Times |-> Entries(data, t)]
    /\ UNCHANGED <<remaining, xfer, atCall, ret>>
    /\ UNCHANGED <<pubVars, remoteVars, fnVars>>

\* The head of the second loop, which walks bucketData while it grows:
\* remaining = members.length - this.bucketSize.
RebalanceScan ==
    /\ rpc = "scan"
    /\ IF ri > Len(bucketData)
       THEN /\ rpc' = "idle"
            /\ ret' = Outcome("rebalance", "none", NoResource)
            /\ Forget
       ELSE LET overflow == Len(bucketData[ri].members) - bucketSize IN
            /\ remaining' = overflow
            /\ IF overflow > 0
               THEN rpc' = "prev" /\ UNCHANGED ri
               ELSE ri' = ri + 1 /\ UNCHANGED rpc
            /\ UNCHANGED <<ret, xfer, loaded, atCall>>
    /\ UNCHANGED bucketData
    /\ UNCHANGED <<pubVars, remoteVars, fnVars>>

\* if (i > 0) remaining -= await this._rebalance(data[i], data[i - 1])
RebalancePrev ==
    /\ rpc = "prev"
    /\ IF ri > 1
       THEN /\ xfer' = StartXfer(bucketData, ri, ri - 1, "next")
            /\ rpc' = "xfer"
       ELSE /\ rpc' = "next"
            /\ UNCHANGED xfer
    /\ UNCHANGED <<bucketData, ri, remaining, loaded, atCall, ret>>
    /\ UNCHANGED <<pubVars, remoteVars, fnVars>>

\* if (i < this.buckets.length - 1) remaining -= await this._rebalance(
\* data[i], data[i + 1]); reading data[i + 1] past the end gives undefined,
\* whose members cannot be read.
RebalanceNext ==
    /\ rpc = "next"
    /\ IF ri < Len(buckets)
       THEN IF ri + 1 <= Len(bucketData)
            THEN /\ xfer' = StartXfer(bucketData, ri, ri + 1, "while")
                 /\ rpc' = "xfer"
                 /\ UNCHANGED <<ret, ri, remaining, loaded, atCall>>
            ELSE /\ rpc' = "idle"
                 /\ ret' = Outcome("rebalance", ErrTypeError, NoResource)
                 /\ Forget
       ELSE /\ rpc' = "while"
            /\ UNCHANGED <<xfer, ret, ri, remaining, loaded, atCall>>
    /\ UNCHANGED bucketData
    /\ UNCHANGED <<pubVars, remoteVars, fnVars>>

\* while (remaining > 0): a new Date() is made, [newBucket, []] is pushed on
\* bucketData and _rebalance(data[i], metadata) is called.  `now` is the
\* clock's reading.
\* A variant of the loop condition that gives up one resource early; with
\* it, C4_NoOverflowAtReturn fails.
NeedsNewBucketLate(rem) == rem > 1

NeedsNewBucket(rem) == rem > 0

RebalanceWhile(now) ==
    /\ rpc = "while"
    /\ IF NeedsNewBucket(remaining)
       THEN /\ Len(bucketData) < MaxData
            /\ LET data == Append(bucketData, Entry(Date(nextRef, now), <<>>)) IN
                /\ bucketData' = data
                /\ xfer' = StartXfer(data, ri, Len(data), "while")
            /\ nextRef' = nextRef + 1
            /\ rpc' = "xfer"
            /\ UNCHANGED ri
       ELSE /\ now = 0
            /\ ri' = ri + 1
            /\ rpc' = "scan"
            /\ UNCHANGED <<bucketData, xfer, nextRef>>
    /\ UNCHANGED <<remaining, loaded, atCall, ret>>
    /\ UNCHANGED <<buckets, bucketSize, enabled, ipc, iargs, nextRes>>
    /\ UNCHANGED <<remoteVars, fnVars>>

\* One round of the loop of _rebalance: from[1].pop(), await this.move(
\* resource, from[0], to[0]), to[1].push(resource).
RebalanceMove ==
    /\ rpc = "xfer"
    /\ xfer.j < xfer.amount
    /\ LET from == bucketData[xfer.from]
           to == bucketData[xfer.to]
           resource == from.members[Len(from.members)]
           popped == SubSeq(from.members, 1, Len(from.members) - 1)
           done == DoMove(buckets, enabled, contents, resource, from.date, to.date)
       IN
        /\ buckets' = done.buckets
        /\ contents' = done.contents
        /\ inflight' = inflight \cup done.reqs
        /\ IF done.err # "none"
           THEN \* what move throws, _rebalance and rebalance throw
                /\ bucketData' = [bucketData EXCEPT ![xfer.from].members = popped]
                /\ rpc' = "idle"
                /\ ret' = Outcome("rebalance", done.err, NoResource)
                /\ Forget
           ELSE /\ bucketData' = [bucketData EXCEPT
                       ![xfer.from].members = popped,
                       ![xfer.to].members = Append(to.members, resource)]
                /\ xfer' = [xfer EXCEPT !.j = @ + 1]
                /\ UNCHANGED <<rpc, ret, ri, remaining, loaded, atCall>>
    /\ UNCHANGED <<bucketSize, enabled, ipc, iargs, nextRef, nextRes>>
    /\ UNCHANGED <<lil, pageSize, shapeDoc, metaShape, containers>>
    /\ UNCHANGED fnVars

\* _rebalance returns `amount`, which the caller takes off `remaining`.
RebalanceReturn ==
    /\ rpc = "xfer"
    /\ xfer.j >= xfer.amount
    /\ remaining' = remaining - xfer.amount
    /\ rpc' = xfer.after
    /\ UNCHANGED <<bucketData, ri, xfer, loaded, atCall, ret>>
    /\ UNCHANGED <<pubVars, remoteVars, fnVars>>

Rebalance ==
    \/ RebalanceCall
    \/ RebalanceLoad
    \/ RebalanceScan
    \/ RebalancePrev
    \/ RebalanceNext
    \/ \E now \in Times : RebalanceWhile(now)
    \/ RebalanceMove
    \/ RebalanceReturn

\* ------------------------------------------- getBucket and calculateBucket
MaxRelations == 3   \* relations in a drawn metadata

NodeNames == <<"node1", "node2", "node3", "node4", "node5">>

Unanswered == [done |-> FALSE, get |-> Returned(Undefined), url |-> None]

\* The bucket list that holds the boundaries of the relations, in their order.
BucketsOf(rels) == [k \in DOMAIN rels |-> Date(k, rels[k].value)]

\* Both assignment functions applied to the drawn sample: getBucket on the
\* bucket list of the boundaries, calculateBucket on the relations.
Assign(parse) ==
    /\ ~chosen.done
    /\ sample.kind = "invalid" \/ parse = "throw"
    /\ LET stamp == GetTimeStamp(sample, parse) IN
       chosen' = [done |-> TRUE,
                  get |-> GetBucket(BucketsOf(relations), stamp),
                  url |-> CASE stamp.kind = "throw" -> "throw"
                            [] stamp.kind = "nan" -> None
                            [] OTHER -> CalculateBucket(relations, stamp.v)]
    /\ UNCHANGED <<relations, sample, shapeVars, extractVars, turtleVars, genVars, batchVars>>
    /\ UNCHANGED <<pubVars, remoteVars, rebVars, ret>>

\* --------------------------------------------------------- extractResources
MaxTriples == 3     \* triples in a drawn store

\* Terms are named by their id: two named nodes, the event stream, blank
\* nodes (x, y of the input, n1.. made by a parser) and a literal, listed in
\* the order in which the store indexes them.
TermOrder == <<"a", "b", "s", "x", "y", "n1", "n2", "n3", "n4", "n5", "n6",
               "n7", "n8", "l">>
BlankNodes == {"x", "y", "n1", "n2", "n3", "n4", "n5", "n6", "n7", "n8"}
EventStreamURI == "s"
TreePath == "p"
TreeMember == "member"
PredicateOrder == <<"p", "q", "member">>

Quad(subject, predicate, object) ==
    [subject |-> subject, predicate |-> predicate, object |-> object]

Rank(order, id) == CHOOSE k \in DOMAIN order : order[k] = id

\* The place of a quad in the store's index: by subject, predicate, object.
QuadBefore(q1, q2) ==
    LET k1 == <<Rank(TermOrder, q1.subject), Rank(PredicateOrder, q1.predicate),
                Rank(TermOrder, q1.object)>>
        k2 == <<Rank(TermOrder, q2.subject), Rank(PredicateOrder, q2.predicate),
                Rank(TermOrder, q2.object)>>
    IN  \/ k1[1] < k2[1]
        \/ k1[1] = k2[1] /\ k1[2] < k2[2]
        \/ k1[1] = k2[1] /\ k1[2] = k2[2] /\ k1[3] < k2[3]

\* A set of quads as the array the store returns for it.
RECURSIVE InIndexOrder(_)
InIndexOrder(quads) ==
    IF quads = {} THEN <<>>
    ELSE LET first == CHOOSE q \in quads : \A r \in quads \ {q} : QuadBefore(q, r)
         IN  <<first>> \o InIndexOrder(quads \ {first})

\* store.getQuads(subject, null, null, null)
GetQuads(st, subject) == InIndexOrder({q \in st : q.subject = subject})

\* store.getSubjects(treePath, null, null): the distinct subjects.
GetSubjects(st, treePath) ==
    LET subjects == {q.subject : q \in {r \in st : r.predicate = treePath}}
        RECURSIVE Listed(_)
        Listed(ids) ==
            IF ids = {} THEN <<>>
            ELSE LET first == CHOOSE t \in ids : \A u \in ids :
                                  Rank(TermOrder, t) <= Rank(TermOrder, u)
                 IN  <<first>> \o Listed(ids \ {first})
    IN  Listed(subjects)

\* A variant of the membership quad with subject and object swapped; with
\* it, C14_MemberAndPathTriples fails.
MemberQuadSwapped(subject) == Quad(subject, TreeMember, EventStreamURI)

\* new Quad(namedNode(eventStreamURI), namedNode(TREE.member), subject)
MemberQuad(subject) == Quad(EventStreamURI, TreeMember, subject)

\* The set mainSubjects of line 49.
MainSubjects(st) == {q.subject : q \in {r \in st : r.predicate = TreePath}}

\* A variant of the test of line 58 that never finds the object; with it,
\* C15_WalkTerminates fails.
AlreadyExpandedNever(existing, id) == FALSE

\* existingObjects.has(quad.object.id)
AlreadyExpanded(existing, id) == id \in existing

\* A variant of the expansion that takes the quads of every subject; with
\* it, C17_ReachableButMember fails.
ExpansionOfAll(st, object, main) ==
    InIndexOrder({q \in st :
        q.object = main \/ q.object \notin MainSubjects(st)})

\* store.getQuads(quad.object, null, null, null).filter(...): the quads of
\* the object, without those that point at another main subject.
Expansion(st, object, main) ==
    InIndexOrder({q \in st :
        /\ q.subject = object
        /\ q.object = main \/ q.object \notin MainSubjects(st)})

\* extractResources(store, treePath, eventStreamURI) up to its second loop.
ExtractCall ==
    /\ epc = "idle"
    /\ LET mainSubjects == GetSubjects(store, TreePath)
           made == [k \in DOMAIN mainSubjects |->
                      Append(GetQuads(store, mainSubjects[k]),
                             MemberQuad(mainSubjects[k]))]
       IN
        /\ resources' = made
        /\ epc' = IF made = <<>> THEN "done" ELSE "walk"
        /\ existingObjects' = IF made = <<>> THEN {} ELSE {made[1][1].subject}
    /\ ei' = 1
    /\ ej' = 1
    /\ UNCHANGED <<store, original>>
    /\ UNCHANGED <<pubVars, remoteVars, rebVars, ret>>
    /\ UNCHANGED <<relations, sample, chosen, shapeVars, turtleVars, genVars, batchVars>>

\* for (const quad of quads): the object was met before, continue.
ExtractSkip ==
    /\ epc = "walk"
    /\ ej <= Len(resources[ei])
    /\ AlreadyExpanded(existingObjects, resources[ei][ej].object)
    /\ ej' = ej + 1
    /\ UNCHANGED <<store, resources, ei, existingObjects, epc, original>>
    /\ UNCHANGED <<pubVars, remoteVars, rebVars, ret>>
    /\ UNCHANGED <<relations, sample, chosen, shapeVars, turtleVars, genVars, batchVars>>

\* for (const quad of quads): the object is new, its quads are pushed on
\* the array that is being walked.
ExtractExpand ==
    /\ epc = "walk"
    /\ ej <= Len(resources[ei])
    /\ ~AlreadyExpanded(existingObjects, resources[ei][ej].object)
    /\ LET quads == resources[ei]
           quad == quads[ej]
       IN
        /\ existingObjects' = existingObjects \cup {quad.object}
        /\ resources' = [resources EXCEPT
               ![ei] = quads \o Expansion(store, quad.object, quads[1].subject)]
    /\ ej' = ej + 1
    /\ UNCHANGED <<store, ei, epc, original>>
    /\ UNCHANGED <<pubVars, remoteVars, rebVars, ret>>
    /\ UNCHANGED <<relations, sample, chosen, shapeVars, turtleVars, genVars, batchVars>>

\* for (const quads of resources): the walk of one resource has ended.
ExtractNext ==
    /\ epc = "walk"
    /\ ej > Len(resources[ei])
    /\ IF ei < Len(resources)
       THEN /\ ei' = ei + 1
            /\ ej' = 1
            /\ existingObjects' = {resources[ei + 1][1].subject}
            /\ UNCHANGED epc
       ELSE /\ epc' = "done"
            /\ UNCHANGED <<ei, ej, existingObjects>>
    /\ UNCHANGED <<store, resources, original>>
    /\ UNCHANGED <<pubVars, remoteVars, rebVars, ret>>
    /\ UNCHANGED <<relations, sample, chosen, shapeVars, turtleVars, genVars, batchVars>>

ExtractResources == ExtractCall \/ ExtractSkip \/ ExtractExpand \/ ExtractNext

\* ------------------------------------------------------------ generateShape
RdfType == "rdf:type"
Literals == {"l", "l2"}

\* The IRIs generateShape is handed, and what extractValue finds in each:
\* the characters after the last '/' or '#'.
LocalNames ==
    [iri \in {"ex/T", "org#T", "ex/U", "ex/p", "org#q"} |->
        CASE iri = "ex/T" -> "T"
          [] iri = "org#T" -> "T"
          [] iri = "ex/U" -> "U"
          [] iri = "ex/p" -> "p"
          [] OTHER -> "q"]

ExtractValue(val) == LocalNames[val]

\* namedNode(eventStreamURL + extractValue(...) + 'Shape' / "Property")
ShapeNode(type) == "lil/" \o ExtractValue(type) \o "Shape"
PropertyNode(predicate) == "lil/" \o ExtractValue(predicate) \o "Property"

\* literal(n) as a term
NumberLiterals == <<"1", "2", "3", "4", "5", "6", "7", "8">>
Literal(n) == NumberLiterals[n]

\* nodeKinds[quad.object.termType]
NodeKind(object) ==
    IF object \in Literals THEN "sh:Literal"
    ELSE IF object \in BlankNodes THEN "sh:BlankNodeOrIRI"
    ELSE "sh:IRI"

\* new Store(resource): the distinct quads; every term gets the next id
\* when it is first met, subject, predicate, object of each quad in turn.
Flattened(quads) ==
    [i \in 1..(3 * Len(quads)) |->
        LET quad == quads[((i - 1) \div 3) + 1] IN
        CASE (i - 1) % 3 = 0 -> quad.subject
          [] (i - 1) % 3 = 1 -> quad.predicate
          [] OTHER -> quad.object]

IdOf(quads, term) ==
    LET flat == Flattened(quads) IN
    CHOOSE i \in DOMAIN flat :
        flat[i] = term /\ \A j \in 1..(i - 1) : flat[j] # term

\* resourceStore.getQuads(null, RDF.type, null, null): the store walks its
\* predicate index, objects in the order of their ids and, for each, the
\* subjects in the order of theirs.
TypeBefore(quads, q1, q2) ==
    \/ IdOf(quads, q1.object) < IdOf(quads, q2.object)
    \/ /\ q1.object = q2.object
       /\ IdOf(quads, q1.subject) < IdOf(quads, q2.subject)

TypeQuads(quads) ==
    LET found == {q \in Range(quads) : q.predicate = RdfType} IN
    CHOOSE seq \in [1..Cardinality(found) -> found] :
        /\ Range(seq) = found
        /\ \A i, j \in DOMAIN seq : i < j => TypeBefore(quads, seq[i], seq[j])

\* resourceStore.getObjects(subject, predicate, null).length
GetObjectsLength(quads, subject, predicate) ==
    Cardinality({q.object : q \in {r \in Range(quads) :
                    r.subject = subject /\ r.predicate = predicate}})

\* The first loop: two quads per type assertion found in the store.
RECURSIVE TypeShapes(_)
TypeShapes(typeQuads) ==
    IF typeQuads = <<>> THEN <<>>
    ELSE LET quad == Head(typeQuads)
             subj == ShapeNode(quad.object)
         IN  <<Quad(subj, RdfType, "sh:NodeShape"),
               Quad(subj, "sh:targetClass", quad.object)>>
                \o TypeShapes(Tail(typeQuads))

\* The map `subjects` after the first loop: subjects.set overwrites, the
\* type assertion met last names the shape node of a subject.
Subjects(typeQuads) ==
    [subject \in {typeQuads[k].subject : k \in DOMAIN typeQuads} |->
        LET last == CHOOSE k \in DOMAIN typeQuads :
                        /\ typeQuads[k].subject = subject
                        /\ \A j \in DOMAIN typeQuads :
                              typeQuads[j].subject = subject => j <= k
        IN  ShapeNode(typeQuads[last].object)]

\* A variant of the test `if (!subj) continue` that skips nothing.
TypeKnownAlways(subjects, subject) == TRUE

\* subjects.get(quad.subject.id) is defined
TypeKnown(subjects, subject) == subject \in DOMAIN subjects

\* The quads pushed for one quad of the second loop.
PropertyShape(quads, subjects, quad) ==
    LET subj == IF quad.subject \in DOMAIN subjects
                THEN subjects[quad.subject] ELSE "undefined"
        obj == PropertyNode(quad.predicate)
    IN  <<Quad(subj, "sh:property", obj),
          Quad(obj, RdfType, "sh:propertyShape"),
          Quad(obj, "sh:path", quad.predicate),
          Quad(obj, "sh:nodeKind", NodeKind(quad.object)),
          Quad(obj, "sh:minCount", Literal(1)),
          Quad(obj, "sh:maxCount",
               Literal(GetObjectsLength(quads, quad.subject, quad.predicate)))>>
        \o IF quad.object \in DOMAIN subjects
           THEN <<Quad(obj, "sh:node", subjects[quad.object])>>
           ELSE <<>>

\* The second loop, over the resource as it was handed in.
RECURSIVE PropertyShapes(_, _, _)
PropertyShapes(quads, subjects, rest) ==
    IF rest = <<>> THEN <<>>
    ELSE LET quad == Head(rest) IN
         (IF quad.predicate = RdfType \/ ~TypeKnown(subjects, quad.subject)
          THEN <<>>
          ELSE PropertyShape(quads, subjects, quad))
            \o PropertyShapes(quads, subjects, Tail(rest))

\* generateShape(resource, eventStreamURL): the array it returns.
GenerateShapeOf(quads) ==
    LET typeQuads == TypeQuads(quads) IN
    TypeShapes(typeQuads) \o PropertyShapes(quads, Subjects(typeQuads), quads)

\* A call of generateShape on the resource handed in.
GenerateShape ==
    /\ genOut.pc = "idle"
    /\ genOut' = [pc |-> "done", shape |-> GenerateShapeOf(genIn)]
    /\ UNCHANGED genIn
    /\ UNCHANGED <<pubVars, remoteVars, rebVars, ret>>
    /\ UNCHANGED <<relations, sample, chosen, shapeVars, extractVars, turtleVars>>
    /\ UNCHANGED batchVars

\* ----------------------------------------------------------- batchResources
MaxSources == 3     \* resources in a drawn source
MaxCount == 3       \* the greatest drawn count

\* The loop over source.entries(): resources[Math.floor(i / count)].push(
\* ...resource), i counting from 0.
RECURSIVE PushAll(_, _, _, _)
PushAll(batches, source, count, i) ==
    IF i >= Len(source) THEN batches
    ELSE PushAll([batches EXCEPT ![(i \div count) + 1] = @ \o source[i + 1]],
                 source, count, i + 1)

\* batchResources(source, count)
BatchResources(source, count) ==
    IF count < 1 THEN source
    ELSE LET made == PushAll([k \in 1..((Len(source) \div count) + 1) |-> <<>>],
                             source, count, 0)
         IN  IF made[Len(made)] = <<>>
             THEN [k \in 1..(Len(made) - 1) |-> made[k]]
             ELSE made

\* A call of batchResources on the arguments handed in.
Batch ==
    /\ batchOut.pc = "idle"
    /\ batchOut' = [pc |-> "done",
                    resources |-> BatchResources(batchIn.source, batchIn.count)]
    /\ UNCHANGED batchIn
    /\ UNCHANGED <<pubVars, remoteVars, rebVars, ret>>
    /\ UNCHANGED <<relations, sample, chosen, shapeVars, extractVars, turtleVars>>
    /\ UNCHANGED genVars

\* ------------------------------------------------ resourceToOptimisedTurtle
MaxQuads == 3       \* quads in a drawn resource

\* A Map keeps its entries in the order in which the keys were set: a
\* sequence of [key, val].
MapEntry(key, val) == [key |-> key, val |-> val]

MapIndex(map, key) ==
    IF \E k \in DOMAIN map : map[k].key = key
    THEN CHOOSE k \in DOMAIN map : map[k].key = key
    ELSE 0

\* for (const obj of objs) if (obj.equals(quad.object)) continue addElements
ObjectKnown(objs, object) == \E k \in DOMAIN objs : objs[k] = object

\* The body of the addElements loop for one quad and the map it belongs in.
AddElement(data, quad) ==
    LET si == MapIndex(data, quad.subject) IN
    IF si = 0
    THEN Append(data, MapEntry(quad.subject,
                               <<MapEntry(quad.predicate, <<quad.object>>)>>))
    ELSE LET props == data[si].val
             pi == MapIndex(props, quad.predicate)
         IN  IF pi = 0
             THEN [data EXCEPT ![si].val =
                      Append(props, MapEntry(quad.predicate, <<quad.object>>))]
             ELSE IF ObjectKnown(props[pi].val, quad.object)
             THEN data
             ELSE [data EXCEPT ![si].val[pi].val = Append(@, quad.object)]

\* The maps `named` and `blank` after the addElements loop.
RECURSIVE AddElements(_, _)
AddElements(maps, quads) ==
    IF quads = <<>> THEN maps
    ELSE LET quad == Head(quads) IN
         AddElements(
            IF quad.subject \in BlankNodes
            THEN [maps EXCEPT !.blank = AddElement(@, quad)]
            ELSE [maps EXCEPT !.named = AddElement(@, quad)],
            Tail(quads))

\* What is handed to writer.addQuad: a quad whose object is a term, or one
\* whose object is writer.blank(predicate, object), an anonymous node with
\* that one pair; `of` remembers the blank node it was made for.
Plain(subject, predicate, object) ==
    [subject |-> subject, predicate |-> predicate, object |-> object,
     of |-> "", anon |-> <<>>]
Nested(subject, predicate, of, blankPredicate, blankObject) ==
    [subject |-> subject, predicate |-> predicate, object |-> "[]",
     of |-> of, anon |-> <<blankPredicate, blankObject>>]

\* The two inner loops over blankProperties, lines 347-354.
RECURSIVE BlankObjectsOut(_, _, _, _, _)
BlankObjectsOut(subject, predicate, of, blankPredicate, blankObjects) ==
    IF blankObjects = <<>> THEN <<>>
    ELSE <<Nested(subject, predicate, of, blankPredicate, Head(blankObjects))>>
            \o BlankObjectsOut(subject, predicate, of, blankPredicate,
                               Tail(blankObjects))

RECURSIVE BlankPropertiesOut(_, _, _, _)
BlankPropertiesOut(subject, predicate, of, blankProperties) ==
    IF blankProperties = <<>> THEN <<>>
    ELSE BlankObjectsOut(subject, predicate, of, Head(blankProperties).key,
                         Head(blankProperties).val)
            \o BlankPropertiesOut(subject, predicate, of, Tail(blankProperties))

\* The loop over the objects of one subject and predicate, lines 342-356.
RECURSIVE ObjectsOut(_, _, _, _)
ObjectsOut(subject, predicate, objects, blank) ==
    IF objects = <<>> THEN <<>>
    ELSE LET object == Head(objects)
             rest == ObjectsOut(subject, predicate, Tail(objects), blank)
         IN  IF object \notin BlankNodes
             THEN <<Plain(subject, predicate, object)>> \o rest
             ELSE IF MapIndex(blank, object) = 0
             THEN rest
             ELSE BlankPropertiesOut(subject, predicate, object,
                                     blank[MapIndex(blank, object)].val) \o rest

RECURSIVE PropertiesOut(_, _, _)
PropertiesOut(subject, properties, blank) ==
    IF properties = <<>> THEN <<>>
    ELSE ObjectsOut(subject, Head(properties).key, Head(properties).val, blank)
            \o PropertiesOut(subject, Tail(properties), blank)

RECURSIVE NamedOut(_, _)
NamedOut(named, blank) ==
    IF named = <<>> THEN <<>>
    ELSE PropertiesOut(Head(named).key, Head(named).val, blank)
            \o NamedOut(Tail(named), blank)

\* blank.get(object.id)! is undefined for a blank object that is the
\* subject of no quad; iterating it throws.
BlankUndefined(named, blank) ==
    \E si \in DOMAIN named : \E pi \in DOMAIN named[si].val :
        \E oi \in DOMAIN named[si].val[pi].val :
            LET object == named[si].val[pi].val[oi] IN
            object \in BlankNodes /\ MapIndex(blank, object) = 0

\* resourceToOptimisedTurtle(resource, prefixes): what it throws, and the
\* quads it hands to the writer, in their order.
ResourceToOptimisedTurtle(quads) ==
    LET maps == AddElements([named |-> <<>>, blank |-> <<>>], quads) IN
    IF BlankUndefined(maps.named, maps.blank)
    THEN [err |-> ErrTypeError, out |-> <<>>]
    ELSE [err |-> "none", out |-> NamedOut(maps.named, maps.blank)]

\* A call of resourceToOptimisedTurtle on the resource handed in.
Serialise ==
    /\ turtleOut.err = "idle"
    /\ turtleOut' = ResourceToOptimisedTurtle(turtleIn)
    /\ UNCHANGED turtleIn
    /\ UNCHANGED <<pubVars, remoteVars, rebVars, ret>>
    /\ UNCHANGED <<relations, sample, chosen, shapeVars, extractVars, genVars, batchVars>>

\* The Turtle the writer was handed, read back: a plain statement is its
\* triple; every anonymous node [ predicate object ] is a blank node of its
\* own with that one pair. A blank node written as a bare term keeps its
\* label.
FreshNames == <<"n1", "n2", "n3", "n4", "n5", "n6", "n7", "n8">>

NestedUpTo(out, k) == Cardinality({i \in 1..k : out[i].anon # <<>>})

ParseTurtle(out) ==
    UNION {IF out[k].anon = <<>>
           THEN {Quad(out[k].subject, out[k].predicate, out[k].object)}
           ELSE LET node == FreshNames[NestedUpTo(out, k)] IN
                {Quad(out[k].subject, out[k].predicate, node),
                 Quad(node, out[k].anon[1], out[k].anon[2])}
           : k \in DOMAIN out}

\* One extracted resource is serialised with resourceToOptimisedTurtle,
\* the Turtle is parsed into a store, and extractResources is called on
\* that store; `original` keeps the resource that was serialised.
RoundTrip ==
    /\ epc = "done"
    /\ original = <<>>
    /\ \E k \in DOMAIN resources :
         LET turtle == ResourceToOptimisedTurtle(resources[k]) IN
          /\ original' = resources[k]
          /\ IF turtle.err # "none"
             THEN /\ epc' = "thrown"
                  /\ UNCHANGED <<store, resources, ei, ej, existingObjects>>
             ELSE /\ epc' = "idle"
                  /\ store' = ParseTurtle(turtle.out)
                  /\ resources' = <<>>
                  /\ ei' = 1
                  /\ ej' = 1
                  /\ existingObjects' = {}
    /\ UNCHANGED <<pubVars, remoteVars, rebVars, ret>>
    /\ UNCHANGED <<relations, sample, chosen, shapeVars, turtleVars, genVars, batchVars>>

\* ----------------------------------------------------------- specifications
Idle == Outcome("none", "none", NoResource)

InitPublisher ==
    /\ buckets = <<>>
    /\ bucketSize = Infinity
    /\ enabled = FALSE
    /\ ipc = "idle"
    /\ iargs = NoArgs
    /\ nextRef = 1
    /\ nextRes = 1

InitRebalancer ==
    /\ rpc = "idle"
    /\ bucketData = <<>>
    /\ ri = 1
    /\ remaining = 0
    /\ xfer = NoXfer
    /\ loaded = [t \in Times |-> 0]
    /\ atCall = EmptyContents

InitFn ==
    /\ relations = <<>>
    /\ sample = NoResource
    /\ chosen = Unanswered

InitShape ==
    /\ spc = "idle"
    /\ sret = ShapeOutcome("none")

InitExtract ==
    /\ store = {}
    /\ resources = <<>>
    /\ ei = 1
    /\ ej = 1
    /\ existingObjects = {}
    /\ epc = "idle"
    /\ original = <<>>

InitTurtle ==
    /\ turtleIn = <<>>
    /\ turtleOut = [err |-> "idle", out |-> <<>>]

InitGen ==
    /\ genIn = <<>>
    /\ genOut = [pc |-> "idle", shape |-> <<>>]

InitBatch ==
    /\ batchIn = [source |-> <<>>, count |-> 0]
    /\ batchOut = [pc |-> "idle", resources |-> <<>>]

InitTools == InitShape /\ InitExtract /\ InitTurtle /\ InitGen /\ InitBatch

\* A resource some other writer left in the stream.
Foreign == Resource(0, "ok", 0)

\* The publisher after construction, in front of a remote that holds no
\* stream, something that is no stream, or a stream with its first bucket,
\* empty or not.
Init ==
    /\ InitPublisher
    /\ InitRebalancer
    /\ InitFn
    /\ InitTools
    /\ ret = Idle
    /\ lil \in {"absent", "invalid", "valid"}
    /\ pageSize = Infinity
    /\ shapeDoc = FALSE
    /\ metaShape = FALSE
    /\ containers = IF lil = "valid" THEN {0} ELSE {}
    /\ contents \in IF lil = "valid"
                     THEN {EmptyContents, [EmptyContents EXCEPT ![0] = {Foreign}]}
                     ELSE {EmptyContents}
    /\ inflight = {}

\* The publisher from its construction on: init with the first bucket at the
\* epoch and no shape, publish, append, move and rebalance one call at a
\* time, and the storage answering between the calls.
Next ==
    \/ \E size \in Capacities : InitCall(0, size, FALSE)
    \/ InitStatus
    \/ \E ok \in BOOLEAN, recorded \in BOOLEAN : InitInitialise(ok, recorded)
    \/ \E putOk \in BOOLEAN : InitMeta(putOk)
    \/ \E patchOk \in BOOLEAN : InitPatch(patchOk)
    \/ \E resource \in ResourceInputs(nextRes), parse \in ParseOutcomes :
            /\ nextRes <= MaxRes
            /\ resource.kind = "invalid" \/ parse = "throw"
            /\ Publish(resource, parse)
    \/ \E t \in InputTimes :
            /\ nextRes <= MaxRes
            /\ AppendCall(Resource(nextRes, "ok", t), t)
    \/ \E req \in inflight, ok \in BOOLEAN : rpc = "idle" /\ StorageAnswers(req, ok)
    \/ Rebalance

Spec == Init /\ [][Next]_vars

\* The publisher around its initialisation: init with every input, publish
\* and flush at any time, and the protected append and move as a caller may
\* try them before init has returned true.
NextInit ==
    \/ \E date \in Times, size \in Capacities, shape \in BOOLEAN :
            InitCall(date, size, shape)
    \/ InitStatus
    \/ \E ok \in BOOLEAN, recorded \in BOOLEAN : InitInitialise(ok, recorded)
    \/ \E putOk \in BOOLEAN : InitMeta(putOk)
    \/ \E patchOk \in BOOLEAN : InitPatch(patchOk)
    \/ \E resource \in ResourceInputs(nextRes), parse \in ParseOutcomes :
            /\ nextRes <= MaxRes
            /\ resource.kind = "invalid" \/ parse = "throw"
            /\ Publish(resource, parse)
    \/ \E t \in InputTimes :
            /\ ~enabled
            /\ AppendCall(Resource(nextRes, "ok", t), t)
    \/ \E from \in InputTimes, to \in InputTimes :
            /\ ~enabled
            /\ MoveCall(from, Date(MaxDates + 1, from), Date(nextRef, to))
    \/ Flush

SpecInit == Init /\ [][NextInit]_vars

\* The two writers of the shape, init and addShapeToLil, called in any order
\* and interleaved at their awaits.
NextShape ==
    \/ \E size \in Capacities, shape \in BOOLEAN : InitCall(0, size, shape)
    \/ InitStatus
    \/ \E ok \in BOOLEAN, recorded \in BOOLEAN : InitInitialise(ok, recorded)
    \/ \E putOk \in BOOLEAN : InitMeta(putOk)
    \/ \E patchOk \in BOOLEAN : InitPatch(patchOk)
    \/ AddShapeToLil

SpecShape == Init /\ [][NextShape]_vars

\* A bucket index as the design describes it, and as _rebalance's callers
\* take it to be: the boundaries strictly increasing, every bucket present
\* in the remote with a number of resources of its own time window.
IncreasingSeqs ==
    {s \in UNION {[1..n -> Times] : n \in 1..MaxBuckets} :
        \A k \in 1..(Len(s) - 1) : s[k] < s[k + 1]}

Stored(bounds, counts) ==
    [t \in Times |->
        UNION {{Resource(MaxMembers * (k - 1) + j, "ok", t) : j \in 1..counts[k]} :
               k \in {x \in DOMAIN bounds : bounds[x] = t}}]

InitIndexed ==
    /\ InitRebalancer
    /\ InitFn
    /\ InitTools
    /\ ret = Idle
    /\ \E bounds \in IncreasingSeqs :
         \E counts \in [DOMAIN bounds -> 0..MaxMembers] :
            /\ buckets = [k \in DOMAIN bounds |-> Date(k, bounds[k])]
            /\ nextRef = Len(bounds) + 1
            /\ containers = Range(bounds)
            /\ contents = Stored(bounds, counts)
    /\ bucketSize \in Capacities
    /\ enabled = TRUE
    /\ ipc = "idle"
    /\ iargs = NoArgs
    /\ nextRes = 1
    /\ lil = "valid"
    /\ pageSize = bucketSize
    /\ shapeDoc = FALSE
    /\ metaShape = FALSE
    /\ inflight = {}

\* An initialised publisher whose bucket index is in order and whose
\* containers are still empty.
InitServing ==
    /\ InitRebalancer
    /\ InitFn
    /\ InitTools
    /\ ret = Idle
    /\ \E bounds \in IncreasingSeqs :
            /\ buckets = [k \in DOMAIN bounds |-> Date(k, bounds[k])]
            /\ nextRef = Len(bounds) + 1
            /\ containers = Range(bounds)
    /\ contents = EmptyContents
    /\ bucketSize \in Capacities
    /\ enabled = TRUE
    /\ ipc = "idle"
    /\ iargs = NoArgs
    /\ nextRes = 1
    /\ lil = "valid"
    /\ pageSize = bucketSize
    /\ shapeDoc = FALSE
    /\ metaShape = FALSE
    /\ inflight = {}

NextFlush ==
    \/ \E resource \in ResourceInputs(nextRes), parse \in ParseOutcomes :
            /\ nextRes <= MaxRes
            /\ resource.kind = "invalid" \/ parse = "throw"
            /\ Publish(resource, parse)
    \/ Flush
    \/ \E req \in inflight, ok \in BOOLEAN : StorageAnswers(req, ok)

\* publish and flush as the users of such a publisher call them, and the
\* storage answering the requests whenever it gets to them.
SpecFlush == InitServing /\ [][NextFlush]_vars

NextIndexed == Rebalance \/ \E req \in inflight, ok \in BOOLEAN : StorageAnswers(req, ok)

\* rebalance on an initialised publisher whose bucket index is in order.
SpecRebalance == InitIndexed /\ [][NextIndexed]_vars

\* rebalance is about to return: the second loop has walked all of bucketData.
Returning == rpc = "scan" /\ ri > Len(bucketData)

\* The number of resources in the containers of timestamps 0..t.
RECURSIVE CountUpTo(_, _)
CountUpTo(cont, t) ==
    IF t < 0 THEN 0 ELSE Cardinality(cont[t]) + CountUpTo(cont, t - 1)

Total(cont) == CountUpTo(cont, MaxTime)

Holders(cont, r) == {t \in Times : r \in cont[t]}

\* C2: from the moment rebalance has loaded its membership lists until it
\* returns, the population is the one it found when it was called: in the
\* membership lists no entry is lost or added (per url, and in total), and
\* in storage every resource that was in a bucket is in exactly one bucket
\* and the total is unchanged.
C2_PopulationPreserved ==
    rpc \notin {"idle", "load"} =>
        /\ \A t \in Times : Entries(bucketData, t) = loaded[t]
        /\ SumLen(bucketData) = Total(atCall)
        /\ Total(contents) = Total(atCall)
        /\ \A t \in Times : \A r \in atCall[t] :
                Cardinality(Holders(contents, r)) = 1

\* C2 witness: _rebalance has moved a resource between two buckets.
C2_Witness ==
    /\ rpc = "xfer"
    /\ xfer.j > 0
    /\ Total(atCall) > 0
    /\ Len(bucketData[xfer.to].members) > Cardinality(atCall[bucketData[xfer.to].date.t])

\* A round of the new-bucket loop has run: _rebalance(data[i], metadata)
\* returns to the while loop.
NewBucketRound ==
    /\ rpc = "xfer"
    /\ rpc' = "while"
    /\ xfer.to > Len(buckets)

\* C3: rebalance terminates because every round of the new-bucket loop
\* strictly decreases the remaining overflow of the bucket at hand.
C3_RoundsDecreaseOverflow == [][NewBucketRound => remaining' < remaining]_vars

Scenario131 ==
    /\ rpc \notin {"idle", "load"}
    /\ bucketSize = 2
    /\ Len(buckets) = 3
    /\ buckets[1].t < buckets[2].t /\ buckets[2].t < buckets[3].t
    /\ Cardinality(atCall[buckets[1].t]) = 1
    /\ Cardinality(atCall[buckets[2].t]) = 3
    /\ Cardinality(atCall[buckets[3].t]) = 1

\* C5: in the scenario no new bucket is created, and rebalance returns with
\* memberships 2, 2 and 1.
C5_Scenario131 ==
    Scenario131 =>
        /\ Len(bucketData) = 3
        /\ Returning =>
              /\ Len(bucketData[1].members) = 2
              /\ Len(bucketData[2].members) = 2
              /\ Len(bucketData[3].members) = 1

\* The triples a drawn store is made of: named and blank subjects, the tree
\* path and another predicate, named, blank and literal objects.
Triples ==
    {Quad(subject, predicate, object) :
        subject \in {"a", "b", "x"}, predicate \in {"p", "q"},
        object \in {"a", "b", "x", "l"}}

RECURSIVE StoresUpTo(_)
StoresUpTo(n) ==
    IF n = 0 THEN {{}}
    ELSE LET smaller == StoresUpTo(n - 1) IN
         smaller \cup {T \cup {t} : T \in smaller, t \in Triples}

InitExtracting ==
    /\ InitPublisher
    /\ InitRebalancer
    /\ InitFn
    /\ InitShape
    /\ InitTurtle
    /\ InitGen
    /\ InitBatch
    /\ ret = Idle
    /\ lil = "valid"
    /\ pageSize = Infinity
    /\ shapeDoc = FALSE
    /\ metaShape = FALSE
    /\ containers = {}
    /\ contents = EmptyContents
    /\ inflight = {}
    /\ store \in StoresUpTo(MaxTriples)
    /\ resources = <<>>
    /\ ei = 1
    /\ ej = 1
    /\ existingObjects = {}
    /\ epc = "idle"
    /\ original = <<>>

NextExtract == ExtractResources \/ RoundTrip

\* extractResources on a drawn store, and again on what the serializer
\* made of one of its resources.
SpecExtract == InitExtracting /\ [][NextExtract]_vars

\* The quads a drawn resource is made of: a named subject and two blank
\* nodes, two predicates, blank and literal objects.
TurtleQuads ==
    {Quad(subject, predicate, object) :
        subject \in {"a", "x", "y"}, predicate \in {"p", "q"},
        object \in {"x", "y", "l"}}

InitTurtleDrawn ==
    /\ InitPublisher
    /\ InitRebalancer
    /\ InitFn
    /\ InitShape
    /\ InitExtract
    /\ InitGen
    /\ InitBatch
    /\ ret = Idle
    /\ lil = "valid"
    /\ pageSize = Infinity
    /\ shapeDoc = FALSE
    /\ metaShape = FALSE
    /\ containers = {}
    /\ contents = EmptyContents
    /\ inflight = {}
    /\ turtleIn \in UNION {[1..n -> TurtleQuads] : n \in 0..MaxQuads}
    /\ turtleOut = [err |-> "idle", out |-> <<>>]

NextTurtle == Serialise

\* The resources a source handed to batchResources is made of: empty, or
\* of one or two quads.
BatchQuadLists == {<<>>, <<"q1">>, <<"q2">>, <<"q1", "q2">>}

InitBatching ==
    /\ InitPublisher
    /\ InitRebalancer
    /\ InitFn
    /\ InitShape
    /\ InitExtract
    /\ InitTurtle
    /\ InitGen
    /\ ret = Idle
    /\ lil = "valid"
    /\ pageSize = Infinity
    /\ shapeDoc = FALSE
    /\ metaShape = FALSE
    /\ containers = {}
    /\ contents = EmptyContents
    /\ inflight = {}
    /\ \E source \in UNION {[1..n -> BatchQuadLists] : n \in 0..MaxSources},
          count \in 0..MaxCount :
            batchIn = [source |-> source, count |-> count]
    /\ batchOut = [pc |-> "idle", resources |-> <<>>]

NextBatch == Batch

\* batchResources on a drawn source and count.
SpecBatch == InitBatching /\ [][NextBatch]_vars

\* The quads a resource handed to generateShape is made of: type
\* assertions and properties of two entities.
ShapeQuads ==
    {Quad(subject, RdfType, type) :
        subject \in {"a", "b"}, type \in {"ex/T", "org#T", "ex/U"}}
    \cup {Quad(subject, predicate, object) :
            subject \in {"a", "b"}, predicate \in {"ex/p", "org#q"},
            object \in {"b", "l", "l2"}}

InitGenerating ==
    /\ InitPublisher
    /\ InitRebalancer
    /\ InitFn
    /\ InitShape
    /\ InitExtract
    /\ InitTurtle
    /\ InitBatch
    /\ ret = Idle
    /\ lil = "valid"
    /\ pageSize = Infinity
    /\ shapeDoc = FALSE
    /\ metaShape = FALSE
    /\ containers = {}
    /\ contents = EmptyContents
    /\ inflight = {}
    /\ genIn \in UNION {[1..n -> ShapeQuads] : n \in 0..MaxQuads}
    /\ genOut = [pc |-> "idle", shape |-> <<>>]

NextGenerate == GenerateShape

\* generateShape on a drawn resource, repetitions included.
SpecGenerate == InitGenerating /\ [][NextGenerate]_vars

\* resourceToOptimisedTurtle on a drawn resource, repetitions included.
SpecTurtle == InitTurtleDrawn /\ [][NextTurtle]_vars

\* The assignment functions on drawn metadata and a drawn sample.
RelationSeqs ==
    UNION {[1..n -> Times] : n \in 1..MaxRelations}

InitAssign ==
    /\ InitPublisher
    /\ InitRebalancer
    /\ InitTools
    /\ ret = Idle
    /\ lil = "valid"
    /\ pageSize = Infinity
    /\ shapeDoc = FALSE
    /\ metaShape = FALSE
    /\ containers = {}
    /\ contents = EmptyContents
    /\ inflight = {}
    /\ \E values \in RelationSeqs :
          relations = [k \in DOMAIN values |->
                          [value |-> values[k], node |-> NodeNames[k]]]
    /\ sample \in {Resource(1, "ok", t) : t \in Times}
                    \cup {Resource(1, "missing", 0), Resource(1, "invalid", 0)}
    /\ chosen = Unanswered

NextAssign == \E parse \in ParseOutcomes : Assign(parse)

SpecAssign == InitAssign /\ [][NextAssign]_vars

\* ------------------------------------------------------------------ claims
StrictlyIncreasing(bkts) ==
    \A k \in 1..(Len(bkts) - 1) : bkts[k].t < bkts[k + 1].t

\* C1: on an initialised publisher the bucket list is strictly increasing by
\* boundary timestamp, right after a bucket was created too.
C1_BucketsStrictlyIncreasing == enabled => StrictlyIncreasing(buckets)

\* The index of the greatest boundary not after ts, in a list of relations
\* whose boundaries increase.
GreatestNotAfter(rels, ts) ==
    CHOOSE k \in DOMAIN rels :
        /\ rels[k].value <= ts
        /\ \A j \in DOMAIN rels : rels[j].value <= ts => j <= k

\* C6: on a non-empty index in strictly increasing order and a timestamp
\* not before the oldest boundary, getBucket and calculateBucket both
\* answer the bucket of the greatest boundary not after the timestamp.
C6_GreatestBoundarySelected ==
    (/\ chosen.done
     /\ sample.kind = "ok"
     /\ relations # <<>>
     /\ \A k \in 1..(Len(relations) - 1) :
            relations[k].value < relations[k + 1].value
     /\ relations[1].value <= sample.ts)
    => LET k == GreatestNotAfter(relations, sample.ts) IN
        /\ chosen.get = Returned(BucketsOf(relations)[k])
        /\ chosen.url = relations[k].node

\* The resource is stamped before every boundary of a non-empty index.
Backdated(resource) ==
    /\ resource.kind = "ok"
    /\ buckets # <<>>
    /\ \A k \in DOMAIN buckets : resource.ts < buckets[k].t

\* C7: publishing a backdated resource fails with the OutOfRange error, not
\* with the one of a missing or unparseable timestamp, and writes nothing.
C7_BackdatedIsOutOfRange ==
    [][\A resource \in ResourceInputs(nextRes) :
          (Backdated(resource) /\ Publish(resource, "throw"))
          => /\ ret'.err = ErrOutOfRange
             /\ inflight' = inflight
             /\ buckets' = buckets]_vars

\* C8: publishing a resource without a parseable timestamp at the tree path
\* raises an error, issues no storage request and leaves the bucket list as
\* it was.
C8_UnparseableIsRejected ==
    [][\A resource \in ResourceInputs(nextRes), parse \in ParseOutcomes :
          (resource.kind # "ok" /\ Publish(resource, parse))
          => /\ ret'.err # "none"
             /\ inflight' = inflight
             /\ buckets' = buckets]_vars

\* C9: when init returns true the index holds exactly one bucket, at the
\* initial date handed to init, and from then on it is never empty.
C9_InitCreatesFirstBucket ==
    /\ [][(ipc = "patch" /\ enabled')
            => (Len(buckets') = 1 /\ buckets'[1].t = iargs.date)]_vars
    /\ [](enabled => buckets # <<>>)

\* An append or a move that gets as far as one of the three closures.
ReachesClosure ==
    \/ \E t \in InputTimes : AppendCall(Resource(nextRes, "ok", t), t)
    \/ \E from \in InputTimes, to \in InputTimes :
          /\ contents[from] # {}
          /\ MoveCall(from, Date(MaxDates + 1, from), Date(nextRef, to))

\* C10: as long as init has not returned true, an append or a move that
\* reaches _addToBucket, _removeFromBucket or _createBucket raises the "not
\* initialised" error, issues no storage request and leaves the bucket list
\* as it was.
C10_NotInitialisedBeforeInit ==
    [][(~enabled /\ ReachesClosure)
        => /\ ret'.err = ErrNotInitialised
           /\ inflight' = inflight
           /\ buckets' = buckets]_vars

\* C10 witness: init has returned false and a move that found its resource
\* in the remote bucket was refused.
C10_Witness ==
    /\ ~enabled
    /\ ret = Outcome("move", ErrNotInitialised, NoResource)
    /\ buckets = <<>>
    /\ inflight = {}

\* C11: a storage call that is answered with a status outside [200,299] is
\* surfaced: after a refused metadata patch init does not return true, and
\* after a refused put or patch addShapeToLil throws.
C11_FailuresSurfaced ==
    [][/\ InitPatch(FALSE) => ret' # Return("true")
       /\ (ShapePut(FALSE) \/ ShapePatch(FALSE)) => sret' = ShapeOutcome(ErrTransport)
      ]_vars

C13_ReferenceOnlyAfterDocument ==
    /\ metaShape => shapeDoc
    /\ spc = "patch" => shapeDoc
    /\ (ipc = "patch" /\ iargs.addShape) => shapeDoc

\* C13 witness: addShapeToLil was interrupted by a refused patch and left the
\* document without the back-reference.
C13_Witness ==
    /\ shapeDoc
    /\ ~metaShape
    /\ spc = "idle"
    /\ ipc = "idle"
    /\ sret = ShapeOutcome(ErrTransport)

\* The main subject and the triples of the k-th extracted resource.
Main(k) == resources[k][1].subject
Have(k) == Range(resources[k])

\* C14: extractResources returns exactly one resource per distinct subject
\* carrying the tree path, and each resource holds the membership triple
\* (stream, tree:member, main subject) and every triple of the store with
\* the main subject as subject and the tree path as predicate.
C14_MemberAndPathTriples ==
    epc = "done" =>
        /\ Len(resources) = Cardinality(MainSubjects(store))
        /\ \A m \in MainSubjects(store) :
              Cardinality({k \in DOMAIN resources : Main(k) = m}) = 1
        /\ \A k \in DOMAIN resources :
              /\ Quad(EventStreamURI, TreeMember, Main(k)) \in Have(k)
              /\ \A t \in store :
                    (t.subject = Main(k) /\ t.predicate = TreePath) => t \in Have(k)

\* C14 witness: two subjects carry the tree path, two resources were
\* extracted and one of them took in the triples of an object.
C14_Witness ==
    /\ epc = "done"
    /\ Len(resources) = 2
    /\ \E k \in DOMAIN resources : \E q \in Have(k) :
          q.subject # Main(k) /\ q.subject # EventStreamURI

\* The work left to the walk: resources still to walk, objects not yet
\* expanded, quads not yet looked at.
Work(res, i, j, existing) ==
    LET unit == Cardinality(store) + 2
        big == (Len(TermOrder) + 1) * unit
    IN  (Len(res) - i) * big
          + (Len(TermOrder) - Cardinality(existing)) * unit
          + (Len(res[i]) - j + 1)

\* C15: the walk terminates, cycles and self-loops included: every step of
\* it lowers the work left, which is never negative, and the list that grows
\* while it is walked never holds more than the store's triples and the
\* membership triple.
C15_WalkTerminates ==
    /\ [][(epc = "walk" /\ epc' = "walk")
            => Work(resources', ei', ej', existingObjects')
                 < Work(resources, ei, ej, existingObjects)]_vars
    /\ [](epc = "walk" =>
            /\ Work(resources, ei, ej, existingObjects) >= 0
            /\ Len(resources[ei]) <= Cardinality(store) + 1)

\* C15 witness: a store with a cycle of length two through the main subject
\* has been walked to the end.
C15_Witness ==
    /\ epc = "done"
    /\ "a" \in MainSubjects(store)
    /\ Quad("a", "q", "x") \in store
    /\ Quad("x", "q", "a") \in store
    /\ Quad("x", "q", "a") \in Have(1)

\* C16: no extracted resource holds a triple whose subject is the main
\* subject of another resource.
C16_NoForeignMainSubject ==
    epc = "done" =>
        \A k \in DOMAIN resources : \A q \in Have(k) :
            q.subject \in MainSubjects(store) => q.subject = Main(k)

\* The terms reachable from the terms of `from` over the triples of `quads`.
RECURSIVE ReachFrom(_, _)
ReachFrom(quads, from) ==
    LET further == from \cup {q.object : q \in {r \in quads : r.subject \in from}}
    IN  IF further = from THEN from ELSE ReachFrom(quads, further)

\* C17 as stated: the subject of every triple of an extracted resource is
\* reachable from the main subject over the triples of the resource.
C17_AllReachable ==
    epc = "done" =>
        \A k \in DOMAIN resources : \A q \in Have(k) :
            q.subject \in ReachFrom(Have(k), {Main(k)})

\* C17, amended: the subject of every triple of an extracted resource other
\* than the synthetic membership triple is reachable from the main subject
\* over the triples of the resource.
C17_ReachableButMember ==
    epc = "done" =>
        \A k \in DOMAIN resources :
            LET own == Have(k) \ {Quad(EventStreamURI, TreeMember, Main(k))} IN
            \A q \in own : q.subject \in ReachFrom(own, {Main(k)})

\* C17 witness: a resource holds a triple two edges away from its main
\* subject.
C17_Witness ==
    /\ epc = "done"
    /\ \E k \in DOMAIN resources : \E q \in Have(k), r \in Have(k) :
          /\ q.subject = Main(k)
          /\ q.object # Main(k)
          /\ r.subject = q.object
          /\ r.object \notin {Main(k), q.object}
          /\ \E t \in Have(k) : t.subject = r.object


\* The statements of the output that stand for the triple t: the plain
\* quad itself, an anonymous node written in the place of t's blank
\* object, or the pair of an anonymous node written for t's blank subject.
StandsFor(st, t) ==
    \/ st = Plain(t.subject, t.predicate, t.object)
    \/ /\ st.anon # <<>>
       /\ t.object \in BlankNodes
       /\ st.subject = t.subject /\ st.predicate = t.predicate
       /\ st.of = t.object
    \/ /\ st.anon # <<>>
       /\ t.subject \in BlankNodes
       /\ st.of = t.subject
       /\ st.anon = <<t.predicate, t.object>>

TimesWritten(t) ==
    Cardinality({k \in DOMAIN turtleOut.out : StandsFor(turtleOut.out[k], t)})

Repeated(t) ==
    \E i, j \in DOMAIN turtleIn : i # j /\ turtleIn[i] = t /\ turtleIn[j] = t

Serialised == turtleOut.err # "idle"

\* C19: a triple that occurs more than once in the serialised resource is
\* written exactly once, wherever its repetitions stand in the input.
C19_RepeatedWrittenOnce ==
    Serialised =>
        \A k \in DOMAIN turtleIn :
            Repeated(turtleIn[k]) =>
                turtleOut.err = "none" /\ TimesWritten(turtleIn[k]) = 1

\* C20: the serializer loses only duplicates: every distinct triple of the
\* input is found in the output, also a triple whose subject is a blank
\* node that is reachable only through another blank node.
C20_OnlyDuplicatesLost ==
    Serialised =>
        /\ turtleOut.err = "none"
        /\ \A k \in DOMAIN turtleIn : TimesWritten(turtleIn[k]) >= 1


\* The blank nodes of a set of triples, and the set with them renamed.
BlanksOf(quads) ==
    {t \in BlankNodes : \E q \in quads : q.subject = t \/ q.object = t}

Renamed(quads, f) ==
    {Quad(IF q.subject \in DOMAIN f THEN f[q.subject] ELSE q.subject,
          q.predicate,
          IF q.object \in DOMAIN f THEN f[q.object] ELSE q.object) : q \in quads}

SameUpToBlankNames(A, B) ==
    /\ Cardinality(BlanksOf(A)) = Cardinality(BlanksOf(B))
    /\ \E f \in [BlanksOf(A) -> BlanksOf(B)] : Renamed(A, f) = B

\* C18: a resource that is serialised, parsed and extracted again with the
\* same tree path and stream comes back with the same triples up to the
\* names of its blank nodes, also when its blank nodes carry several
\* properties or point to further blank nodes.
C18_RoundTrip ==
    /\ epc # "thrown"
    /\ (epc = "done" /\ original # <<>>) =>
          \E k \in DOMAIN resources :
              SameUpToBlankNames(Have(k), Range(original))


\* The types asserted in the resource handed to generateShape.
AssertedTypes == {genIn[k].object : k \in {j \in DOMAIN genIn : genIn[j].predicate = RdfType}}

TargetClassTriples(type) ==
    {k \in DOMAIN genOut.shape :
        /\ genOut.shape[k].predicate = "sh:targetClass"
        /\ genOut.shape[k].object = type}

\* C21: generateShape returns exactly one targetClass triple per distinct
\* type asserted in the resource, also when several entities assert the
\* same type.
C21_OneTargetClassPerType ==
    genOut.pc = "done" =>
        /\ \A type \in AssertedTypes : Cardinality(TargetClassTriples(type)) = 1
        /\ \A k \in DOMAIN genOut.shape :
              genOut.shape[k].predicate = "sh:targetClass"
                  => genOut.shape[k].object \in AssertedTypes


\* The positions of the resource that hold a non-type triple whose subject
\* has a type assertion, and the distinct triples sharing a pair.
Typed(subject) ==
    \E k \in DOMAIN genIn :
        genIn[k].subject = subject /\ genIn[k].predicate = RdfType

Constrained ==
    {k \in DOMAIN genIn : genIn[k].predicate # RdfType /\ Typed(genIn[k].subject)}

Sharing(subject, predicate) ==
    {q \in Range(genIn) : q.subject = subject /\ q.predicate = predicate}

InShape(subject, predicate, object) ==
    \E k \in DOMAIN genOut.shape :
        genOut.shape[k] = Quad(subject, predicate, object)

PropertyEdges == {k \in DOMAIN genOut.shape : genOut.shape[k].predicate = "sh:property"}

StandingFor(url) == contents[url]

\* C23: a bucket's boundary is not after the timestamp of any resource
\* assigned to it, in storage and in the membership lists rebalance keeps;
\* a resource rebalance moves to the following or to a new bucket is not
\* older than that bucket's boundary.
C23_BoundaryNotAfterResources ==
    /\ \A t \in Times : \A r \in contents[t] : r.kind = "ok" /\ t <= r.ts
    /\ \A k \in DOMAIN bucketData : \A j \in DOMAIN bucketData[k].members :
          \A r \in StandingFor(bucketData[k].members[j]) :
              bucketData[k].date.t <= r.ts


\* The requests that carry a published resource to its bucket and have not
\* been answered.
Unwritten == {req \in inflight : req.kind = "patch" /\ req.res # {}}

\* C24: when flush returns without an error, the storage request of every
\* resource handed to publish before has completed.
C24_FlushWaitsForWrites ==
    [][(Flush /\ ret' = Outcome("flush", "none", NoResource)) => Unwritten = {}]_vars


\* _rebalance(from, to) has computed its amount and has moved nothing yet.
XferStarts == rpc = "xfer" /\ xfer.j = 0

\* C25: the amount _rebalance computes is not negative and not more than
\* the overflow of `from` and the room left in `to`; nothing is moved into
\* a bucket that is full, and the caller's `remaining` is not raised.
C25_TransferWithinRoom ==
    XferStarts =>
        LET fromLen == Len(bucketData[xfer.from].members)
            toLen == Len(bucketData[xfer.to].members)
        IN  /\ xfer.amount >= 0
            /\ xfer.amount <= fromLen - bucketSize
            /\ xfer.amount <= bucketSize - toLen
            /\ xfer.amount > 0 => toLen < bucketSize
            /\ remaining - xfer.amount <= remaining


\* A round of _rebalance's loop in which move found the resource: it has
\* called _removeFromBucket and append.
Moved == rpc = "xfer" /\ xfer' = [xfer EXCEPT !.j = @ + 1]

SourceOfMove == bucketData[xfer.from].date.t
TargetOfMove == bucketData[xfer.to].date.t

\* C26: a move drops the resource from its source bucket only once its
\* content is in the destination bucket, so that the resource is in one of
\* the two at every moment.
C26_AppendedBeforeDropped ==
    [][Moved =>
        /\ \E r \in contents[SourceOfMove] : r \in contents[TargetOfMove]
        /\ \A r \in contents[SourceOfMove] :
              r \in contents'[SourceOfMove] \/ r \in contents'[TargetOfMove]
      ]_vars

\* C27: what a move appends to the destination bucket is the content the
\* resource has in the source bucket, never an empty set of triples.
C27_MoveCarriesContent ==
    [][Moved =>
        \E req \in inflight' :
            /\ req.kind = "patch"
            /\ req.b = TargetOfMove
            /\ req.res # {}
            /\ req.res \subseteq contents[SourceOfMove]
      ]_vars

\* rebalance pushes a new bucket on its bucket data.
CreatesBucket == rpc = "while" /\ Len(bucketData') = Len(bucketData) + 1

OldestIn(t) ==
    CHOOSE ts \in {r.ts : r \in contents[t]} :
        \A r \in contents[t] : ts <= r.ts

\* C28: the boundary of a bucket rebalance creates is the timestamp of the
\* oldest resource of the overflowing bucket, whatever the time at which
\* rebalance runs.
C28_NewBoundaryFromData ==
    [][CreatesBucket =>
        bucketData'[Len(bucketData')].date.t = OldestIn(bucketData[ri].date.t)
      ]_vars

\* rebalance is done with the preceding neighbour of an overflowing bucket
\* that has a following neighbour too.
BetweenNeighbours == rpc = "next" /\ ri > 1 /\ ri < Len(buckets)

\* C29: the preceding bucket is served first: when rebalance turns to the
\* following bucket, `remaining` is the overflow that is left, and overflow
\* is left only if the preceding bucket is full.
C29_PrecedingFirst ==
    BetweenNeighbours =>
        /\ remaining = Len(bucketData[ri].members) - bucketSize
        /\ remaining >= 0
        /\ remaining > 0 => Len(bucketData[ri - 1].members) >= bucketSize

\* The anonymous nodes written for the blank object of one input triple.
NodesFor(t) ==
    {k \in DOMAIN turtleOut.out :
        /\ turtleOut.out[k].anon # <<>>
        /\ turtleOut.out[k].subject = t.subject
        /\ turtleOut.out[k].predicate = t.predicate
        /\ turtleOut.out[k].of = t.object}

\* C30: a blank node that is the object of a named subject's statement is
\* written as one anonymous node holding all of its pairs, and no blank
\* node is the subject of a statement of the output.
C30_OneAnonymousNodePerBlank ==
    (Serialised /\ turtleOut.err = "none") =>
        /\ \A k \in DOMAIN turtleIn :
              (turtleIn[k].subject \notin BlankNodes
                    /\ turtleIn[k].object \in BlankNodes)
                  => Cardinality(NodesFor(turtleIn[k])) = 1
        /\ \A k \in DOMAIN turtleOut.out :
              turtleOut.out[k].subject \notin BlankNodes


\* The relations whose boundary is not after ts and not before any other
\* such boundary.
GreatestAmong(rels, ts) ==
    {k \in DOMAIN rels :
        /\ rels[k].value <= ts
        /\ \A j \in DOMAIN rels : rels[j].value <= ts => rels[j].value <= rels[k].value}

\* C31: calculateBucket answers "none" exactly when the timestamp is before
\* every boundary of the metadata; otherwise it answers the node of the
\* greatest boundary not after the timestamp, whatever that boundary and
\* the order of the relations.
C31_NoneOnlyBeforeAll ==
    (chosen.done /\ sample.kind = "ok") =>
        /\ chosen.url = None
              <=> \A k \in DOMAIN relations : sample.ts < relations[k].value
        /\ GreatestAmong(relations, sample.ts) # {}
              => \E k \in GreatestAmong(relations, sample.ts) :
                    chosen.url = relations[k].node


\* The concatenation of the lists first..last of a list of quad lists.
RECURSIVE Concat(_, _, _)
Concat(lists, first, last) ==
    IF first > last THEN <<>>
    ELSE lists[first] \o Concat(lists, first + 1, last)

CeilDiv(n, d) == (n + d - 1) \div d

\* C32: for count >= 1 batchResources returns ceil(n / count) batches, the
\* j-th being source resources j*count .. min(n, (j+1)*count) - 1 in their
\* order, so that all quads are kept in order, empty source resources
\* included; for count < 1 the source is returned.
C32_BatchesOfCount ==
    batchOut.pc = "done" =>
        LET source == batchIn.source
            count == batchIn.count
            n == Len(source)
            out == batchOut.resources
        IN  IF count < 1 THEN out = source
            ELSE /\ Len(out) = CeilDiv(n, count)
                 /\ \A j \in DOMAIN out :
                       out[j] = Concat(source, (j - 1) * count + 1, Min(n, j * count))
                 /\ Concat(out, 1, Len(out)) = Concat(source, 1, n)

\* C33: publish never changes the set of buckets.  On a publisher that is
\* published to (and flushed) only, no step changes the bucket index or the
\* set of remote bucket containers, and every request in flight is a content
\* patch to a bucket of the index: publish appends to a bucket that is
\* already there, and nothing it leaves behind makes a container later.
C33_PublishKeepsBuckets ==
    [][/\ buckets' = buckets
       /\ containers' = containers
       /\ \A req \in inflight' :
              /\ req.kind = "patch"
              /\ \E k \in DOMAIN buckets : buckets[k].t = req.b]_vars

\* A publish has succeeded and the storage holds what it appended.
C33_Witness ==
    /\ ret.op = "publish"
    /\ ret.err = "none"
    /\ \E t \in Times : contents[t] # {}

\* The url of a resource.  Urls are modelled by numbers: that of a bucket by
\* its timestamp, that of a resource by a number past every timestamp, as a
\* contained resource never has the url of a bucket container.
ResourceUrl(resource) == MaxTime + resource.id

\* C34: getMembers(bucket) returns exactly the identifiers of the resources
\* the bucket contains.  Whenever rebalance loads a bucket, the membership
\* list it gets has one entry per contained resource, and its entries are
\* the urls of those resources.
C34_MembersAreContained ==
    [][(rpc = "load" /\ bucketData' # bucketData) =>
          LET entry == bucketData'[Len(bucketData')]
              held == contents[entry.date.t]
          IN  /\ Len(entry.members) = Cardinality(held)
              /\ {entry.members[k] : k \in DOMAIN entry.members}
                    = {ResourceUrl(r) : r \in held}]_vars

\* The property-constraint nodes of the shape, and the values a node
\* carries for a predicate.
ConstraintNodes == {genOut.shape[k].object : k \in PropertyEdges}

ValuesOf(node, predicate) ==
    {genOut.shape[k].object :
        k \in {x \in DOMAIN genOut.shape :
                  /\ genOut.shape[x].subject = node
                  /\ genOut.shape[x].predicate = predicate}}

\* C35: every property-constraint node of the shape carries exactly one
\* path, one nodeKind and one maxCount value.
C35_OneValuePerConstraint ==
    genOut.pc = "done" =>
        \A node \in ConstraintNodes :
            /\ Cardinality(ValuesOf(node, "sh:path")) = 1
            /\ Cardinality(ValuesOf(node, "sh:nodeKind")) = 1
            /\ Cardinality(ValuesOf(node, "sh:maxCount")) = 1

\* The content patches a step issues.
PatchesIssued == {req \in inflight' \ inflight : req.kind = "patch"}

\* C36: when append targets a bucket that is not yet in the index, the
\* creation of the bucket's container has completed before the content
\* patch is issued.  Whenever a step adds a bucket to the index, no patch
\* it issues goes to a bucket whose creation is still in flight.
C36_CreatedBeforePatched ==
    [][Len(buckets') > Len(buckets) =>
          \A req \in PatchesIssued : CreateReq(req.b) \notin inflight']_vars

====
